---- MODULE Spec2Model ----
(***************************************************************************)
(* BinaryTargetEncoding (examples/structured_data/classification_with_tfdf *)
(* .py): a Keras layer with two attributes, positive_frequency_lookup and  *)
(* negative_frequency_lookup, written by adapt and reset_state and read by *)
(* call.  Tensors of shape [n, 1] are modelled as sequences of length n;   *)
(* a feature-value index v addresses element v + 1 of a lookup.            *)
(***************************************************************************)
EXTENDS Integers, Sequences, FiniteSets, TLC

VARIABLES
    self,        \* the encoder's two attributes
    device,      \* where the build places the ops
    history,     \* "new", "reset", "fit" (adapt on an encoder without tensors)
                 \* or "refit" (adapt on an encoder holding tensors)
    lastOp,      \* the latest method called
    lastResult,  \* "" when it returned, else the exception it raised
    lastData,    \* the data of the latest adapt, when it returned
    lastInputs,  \* the inputs of the latest call
    lastOutput,  \* what the latest call returned
    peer,        \* the attributes of a second encoder instance
    actor        \* the instance (1: self, 2: peer) of the latest method

vars ==
    <<self, device, history, lastOp, lastResult, lastData, lastInputs, lastOutput,
      peer, actor>>

(* ------------------------------ bounds --------------------------------- *)

\* longest enumerated adapt input (rows of data)
MaxLen == 2
\* largest feature-value index in an enumerated adapt input
MaxIdx == 1
\* longest enumerated call batch
MaxBatch == 1

(* ------------------------- attribute values ---------------------------- *)

\* an attribute that was never assigned (__init__ assigns neither lookup)
Unset == [tag |-> "unset", val |-> <<>>]
\* the Python value None
None == [tag |-> "None", val |-> <<>>]
\* an int32 tensor of shape [Len(s), 1]
Tensor(s) == [tag |-> "tensor", val |-> s]

\* the devices an op of the TensorFlow build can be placed on
Devices == {"CPU", "GPU"}

(* ----------------------------- float32 --------------------------------- *)

\* A float32 is NaN, an infinity, or the dyadic rational m / 2^k in lowest
\* terms (k = 0 or m odd).
NaN == [kind |-> "nan", m |-> 0, k |-> 0]
Inf == [kind |-> "inf", m |-> 0, k |-> 0]
Num(m, k) == [kind |-> "num", m |-> m, k |-> k]

\* bits of a float32 significand
MantissaBits == 24

RECURSIVE Pow2(_)
Pow2(n) == IF n = 0 THEN 1 ELSE 2 * Pow2(n - 1)

\* lowest terms of m / 2^k
RECURSIVE Canon(_, _)
Canon(m, k) == IF k > 0 /\ m % 2 = 0 THEN Canon(m \div 2, k - 1) ELSE Num(m, k)

\* the least value of a full significand, 2^(MantissaBits - 1)
MinMantissa == Pow2(MantissaBits - 1)

\* least s >= 0 with n * 2^s >= d * MinMantissa
RECURSIVE Scale(_, _)
Scale(n, d) == IF n >= d * MinMantissa THEN 0 ELSE 1 + Scale(2 * n, d)

\* the float32 nearest to n / d, ties to even (0 <= n, 0 < d, n / d < 2^24)
F32Round(n, d) ==
    IF n = 0 THEN Num(0, 0)
    ELSE LET s == Scale(n, d)
             q == (n * Pow2(s)) \div d
             r == (n * Pow2(s)) % d
             up == 2 * r > d \/ (2 * r = d /\ q % 2 = 1)
         IN  Canon(IF up THEN q + 1 ELSE q, s)

\* tf.cast(int32 tensor element, float32)
CastFloat32(n) == F32Round(n, 1)

\* float32 addition of non-negative values
F32Add(a, b) ==
    IF a.kind = "nan" \/ b.kind = "nan" THEN NaN
    ELSE IF a.kind = "inf" \/ b.kind = "inf" THEN Inf
    ELSE F32Round(a.m * Pow2(b.k) + b.m * Pow2(a.k), Pow2(a.k + b.k))

\* a division with its operands exchanged, b / a
F32Div_Swapped(a, b) ==
    IF a.kind = "nan" \/ b.kind = "nan" THEN NaN
    ELSE IF b.kind = "inf" THEN (IF a.kind = "inf" THEN NaN ELSE Inf)
    ELSE IF a.kind = "inf" THEN Num(0, 0)
    ELSE IF a.m = 0 THEN (IF b.m = 0 THEN NaN ELSE Inf)
    ELSE F32Round(b.m * Pow2(a.k), a.m * Pow2(b.k))

\* float32 division of non-negative values: 0/0 is NaN, x/0 is infinite
F32Div(a, b) ==
    IF a.kind = "nan" \/ b.kind = "nan" THEN NaN
    ELSE IF a.kind = "inf" THEN (IF b.kind = "inf" THEN NaN ELSE Inf)
    ELSE IF b.kind = "inf" THEN Num(0, 0)
    ELSE IF b.m = 0 THEN (IF a.m = 0 THEN NaN ELSE Inf)
    ELSE F32Round(a.m * Pow2(b.k), b.m * Pow2(a.k))

(* ---------------------------- tensor ops ------------------------------- *)

\* outcome of an op: raised = "" and the value, or the exception raised
Ok(v) == [raised |-> "", val |-> v]
Raise(e) == [raised |-> e, val |-> <<>>]

SeqToSet(s) == {s[i] : i \in DOMAIN s}

\* tf.unique left out: every element of x, repeated ones included
tf_unique_KeepsDuplicates(x) == x

\* tf.unique(x).y: the distinct elements of x in order of first occurrence
RECURSIVE tf_unique(_)
tf_unique(x) ==
    IF x = <<>> THEN <<>>
    ELSE LET front == SubSeq(x, 1, Len(x) - 1)
             y == tf_unique(front)
         IN  IF x[Len(x)] \in SeqToSet(front) THEN y ELSE Append(y, x[Len(x)])

\* tf.sort(x): ascending
RECURSIVE tf_sort(_)
tf_sort(x) ==
    IF x = <<>> THEN <<>>
    ELSE LET i == CHOOSE j \in DOMAIN x : \A l \in DOMAIN x : x[j] <= x[l]
         IN  <<x[i]>> \o tf_sort(SubSeq(x, 1, i - 1) \o SubSeq(x, i + 1, Len(x)))

\* tf.where(condition): the (0-based) positions at which condition is true
RECURSIVE tf_where(_)
tf_where(condition) ==
    IF condition = <<>> THEN <<>>
    ELSE LET n == Len(condition)
             front == tf_where(SubSeq(condition, 1, n - 1))
         IN  IF condition[n] THEN Append(front, n - 1) ELSE front

\* a gather that returns the looked-up elements in reverse order
gather_nd_Reversed(params, indices, dev) ==
    LET inRange(i) == indices[i] >= 0 /\ indices[i] < Len(params)
        n == Len(indices)
    IN  IF dev = "CPU" /\ \E i \in DOMAIN indices : ~inRange(i)
        THEN [raised |-> "InvalidArgumentError", val |-> <<>>]
        ELSE [raised |-> "",
              val |-> [i \in DOMAIN indices |->
                        IF inRange(n + 1 - i) THEN params[indices[n + 1 - i] + 1] ELSE 0]]

\* tf.gather_nd(params, indices) for params of shape [N, 1] or [N] and
\* indices of shape [n, 1]: an index outside [0, N) raises on CPU and reads
\* as 0 on GPU
gather_nd(params, indices, dev) ==
    LET inRange(i) == indices[i] >= 0 /\ indices[i] < Len(params)
    IN  IF dev = "CPU" /\ \E i \in DOMAIN indices : ~inRange(i)
        THEN Raise("InvalidArgumentError")
        ELSE Ok([i \in DOMAIN indices |->
                    IF inRange(i) THEN params[indices[i] + 1] ELSE 0])

\* a scatter that assigns instead of adding: each segment keeps its last row
RECURSIVE SegmentSums_Assigning(_, _, _)
SegmentSums_Assigning(data, segment_ids, num_segments) ==
    IF segment_ids = <<>> THEN [v \in 1..num_segments |-> 0]
    ELSE LET n == Len(segment_ids)
             acc == SegmentSums_Assigning(SubSeq(data, 1, n - 1),
                                          SubSeq(segment_ids, 1, n - 1), num_segments)
             id == segment_ids[n]
         IN  IF id >= 0 /\ id < num_segments
             THEN [acc EXCEPT ![id + 1] = data[n]]
             ELSE acc

\* the sums of tf.math.segment_sum, which wants sorted ids: a row whose id is
\* below an earlier id is lost
RECURSIVE SegmentSums_SortedOnly(_, _, _)
SegmentSums_SortedOnly(data, segment_ids, num_segments) ==
    IF segment_ids = <<>> THEN [v \in 1..num_segments |-> 0]
    ELSE LET n == Len(segment_ids)
             acc == SegmentSums_SortedOnly(SubSeq(data, 1, n - 1),
                                           SubSeq(segment_ids, 1, n - 1), num_segments)
             id == segment_ids[n]
         IN  IF id >= 0 /\ id < num_segments
                /\ \A j \in 1..(n - 1) : segment_ids[j] <= id
             THEN [acc EXCEPT ![id + 1] = @ + data[n]]
             ELSE acc

\* the sums of tf.math.unsorted_segment_sum, ids outside [0, num_segments)
\* dropped
RECURSIVE SegmentSums(_, _, _)
SegmentSums(data, segment_ids, num_segments) ==
    IF segment_ids = <<>> THEN [v \in 1..num_segments |-> 0]
    ELSE LET n == Len(segment_ids)
             acc == SegmentSums(SubSeq(data, 1, n - 1),
                                SubSeq(segment_ids, 1, n - 1), num_segments)
             id == segment_ids[n]
         IN  IF id >= 0 /\ id < num_segments
             THEN [acc EXCEPT ![id + 1] = @ + data[n]]
             ELSE acc

\* tf.math.unsorted_segment_sum(data, segment_ids, num_segments): a segment id
\* >= num_segments raises on CPU and is dropped on GPU; a negative id is
\* dropped on both
unsorted_segment_sum(data, segment_ids, num_segments, dev) ==
    IF dev = "CPU" /\ \E i \in DOMAIN segment_ids : segment_ids[i] >= num_segments
    THEN Raise("InvalidArgumentError")
    ELSE Ok(SegmentSums(data, segment_ids, num_segments))

\* tf.ones(shape = (n, 1))
tf_ones(n) == [i \in 1..n |-> 1]

(* ------------------------ BinaryTargetEncoding ------------------------- *)

\* BinaryTargetEncoding(): __init__ only calls the base constructor
NewEncoder ==
    [positive_frequency_lookup |-> Unset, negative_frequency_lookup |-> Unset]

\* adapt(self, data), lines 317-358: the statistics of data, a sequence of
\* rows <<feature value, target>>
statistics(data, dev) ==
    LET feature_values == [i \in DOMAIN data |-> data[i][1]]
        target_values == [i \in DOMAIN data |-> data[i][2] # 0]
        unique_feature_values == tf_sort(tf_unique(feature_values))
        positive_indices == tf_where(target_values)
        postive_feature_values ==
            gather_nd(feature_values, positive_indices, dev).val
        positive_frequency ==
            unsorted_segment_sum(tf_ones(Len(postive_feature_values)),
                                 postive_feature_values,
                                 Len(unique_feature_values), dev)
        negative_indices == tf_where([i \in DOMAIN data |-> ~target_values[i]])
        negative_feature_values ==
            gather_nd(feature_values, negative_indices, dev).val
        negative_frequency ==
            unsorted_segment_sum(tf_ones(Len(negative_feature_values)),
                                 negative_feature_values,
                                 Len(unique_feature_values), dev)
    IN  IF positive_frequency.raised # ""
        THEN [raised |-> positive_frequency.raised,
              positive_frequency |-> <<>>, negative_frequency |-> <<>>]
        ELSE IF negative_frequency.raised # ""
        THEN [raised |-> negative_frequency.raised,
              positive_frequency |-> <<>>, negative_frequency |-> <<>>]
        ELSE [raised |-> "",
              positive_frequency |-> positive_frequency.val,
              negative_frequency |-> negative_frequency.val]

\* assignments that add the new statistics to lookups of the same length
store_Accumulating(this, stats) ==
    LET add(old, new) ==
            IF old.tag = "tensor" /\ Len(old.val) = Len(new)
            THEN [tag |-> "tensor", val |-> [i \in DOMAIN new |-> old.val[i] + new[i]]]
            ELSE [tag |-> "tensor", val |-> new]
    IN  [positive_frequency_lookup |->
             add(this.positive_frequency_lookup, stats.positive_frequency),
         negative_frequency_lookup |->
             add(this.negative_frequency_lookup, stats.negative_frequency)]

\* assignments with the second one left out
store_PositiveOnly(this, stats) ==
    [positive_frequency_lookup |-> [tag |-> "tensor", val |-> stats.positive_frequency],
     negative_frequency_lookup |-> this.negative_frequency_lookup]

\* adapt(self, data), lines 360-362: the two assignments that end adapt
store(this, stats) ==
    [positive_frequency_lookup |-> Tensor(stats.positive_frequency),
     negative_frequency_lookup |-> Tensor(stats.negative_frequency)]

\* adapt(self, data): an op that raises leaves self as it was
adapt(this, stats) ==
    IF stats.raised # ""
    THEN [raised |-> stats.raised, self |-> this]
    ELSE [raised |-> "", self |-> store(this, stats)]

\* a reset that forgets the negative lookup
reset_state_PositiveOnly(this) ==
    [positive_frequency_lookup |-> [tag |-> "None", val |-> <<>>],
     negative_frequency_lookup |-> this.negative_frequency_lookup]

\* reset_state(self)
reset_state(this) ==
    [positive_frequency_lookup |-> None, negative_frequency_lookup |-> None]

\* what a call returns
NoOutput == [present |-> FALSE, rows |-> <<>>]
Output(rows) == [present |-> TRUE, rows |-> rows]

\* a call that assigns what it gathers to the attributes it reads
call_Assigning(this, inputs, dev) ==
    IF this.positive_frequency_lookup.tag = "unset"
    THEN [raised |-> "AttributeError", self |-> this, output |-> NoOutput]
    ELSE IF this.positive_frequency_lookup.tag = "None"
    THEN [raised |-> "ValueError", self |-> this, output |-> NoOutput]
    ELSE IF this.negative_frequency_lookup.tag = "unset"
    THEN [raised |-> "AttributeError", self |-> this, output |-> NoOutput]
    ELSE IF this.negative_frequency_lookup.tag = "None"
    THEN [raised |-> "ValueError", self |-> this, output |-> NoOutput]
    ELSE
    LET pos == gather_nd(this.positive_frequency_lookup.val, inputs, dev)
        neg == gather_nd(this.negative_frequency_lookup.val, inputs, dev)
        positive_fequency == [i \in DOMAIN inputs |-> CastFloat32(pos.val[i])]
        negative_fequency == [i \in DOMAIN inputs |-> CastFloat32(neg.val[i])]
        positive_probability ==
            [i \in DOMAIN inputs |->
                F32Div(positive_fequency[i],
                       F32Add(positive_fequency[i], negative_fequency[i]))]
    IN  IF pos.raised # ""
        THEN [raised |-> pos.raised, self |-> this, output |-> NoOutput]
        ELSE IF neg.raised # ""
        THEN [raised |-> neg.raised, self |-> this, output |-> NoOutput]
        ELSE [raised |-> "",
              self |-> [positive_frequency_lookup |-> Tensor(pos.val),
                        negative_frequency_lookup |-> Tensor(neg.val)],
              output |-> Output([i \in DOMAIN inputs |->
                  <<positive_fequency[i], negative_fequency[i],
                    positive_probability[i]>>])]

\* call(self, inputs): inputs is a batch of feature-value indices
call(this, inputs, dev) ==
    IF this.positive_frequency_lookup.tag = "unset"
    THEN [raised |-> "AttributeError", self |-> this, output |-> NoOutput]
    ELSE IF this.positive_frequency_lookup.tag = "None"
    THEN [raised |-> "ValueError", self |-> this, output |-> NoOutput]
    ELSE IF this.negative_frequency_lookup.tag = "unset"
    THEN [raised |-> "AttributeError", self |-> this, output |-> NoOutput]
    ELSE IF this.negative_frequency_lookup.tag = "None"
    THEN [raised |-> "ValueError", self |-> this, output |-> NoOutput]
    ELSE
    LET pos == gather_nd(this.positive_frequency_lookup.val, inputs, dev)
        neg == gather_nd(this.negative_frequency_lookup.val, inputs, dev)
        positive_fequency == [i \in DOMAIN inputs |-> CastFloat32(pos.val[i])]
        negative_fequency == [i \in DOMAIN inputs |-> CastFloat32(neg.val[i])]
        positive_probability ==
            [i \in DOMAIN inputs |->
                F32Div(positive_fequency[i],
                       F32Add(positive_fequency[i], negative_fequency[i]))]
    IN  IF pos.raised # ""
        THEN [raised |-> pos.raised, self |-> this, output |-> NoOutput]
        ELSE IF neg.raised # ""
        THEN [raised |-> neg.raised, self |-> this, output |-> NoOutput]
        ELSE [raised |-> "", self |-> this,
              output |-> Output([i \in DOMAIN inputs |->
                  <<positive_fequency[i], negative_fequency[i],
                    positive_probability[i]>>])]

(* ------------------------------ inputs --------------------------------- *)

SeqsUpTo(S, n) == UNION {[1..l -> S] : l \in 0..n}

\* the data of the example's test of the encoder
ReferenceData ==
    << <<0, 1>>, <<2, 0>>, <<0, 1>>, <<1, 1>>, <<1, 1>>, <<2, 0>>, <<1, 0>>,
       <<0, 1>>, <<2, 1>>, <<1, 0>>, <<0, 1>>, <<2, 0>>, <<0, 1>>, <<1, 1>>,
       <<1, 1>>, <<2, 0>>, <<1, 0>>, <<0, 1>>, <<2, 0>> >>

\* the batch of the example's test of the encoder
ReferenceBatch == <<0, 1, 2>>

\* adapt inputs: rows of a non-negative feature-value index and a 0/1 target
FitInputs == SeqsUpTo((0..MaxIdx) \X {0, 1}, MaxLen) \cup {ReferenceData}

\* call inputs: batches of indices, in and out of any fitted range
Batches == SeqsUpTo(-1..(MaxIdx + 1), MaxBatch) \cup {ReferenceBatch}

(* --------------------------- state machine ----------------------------- *)

Init ==
    /\ self = NewEncoder
    /\ device \in Devices
    /\ history = "new"
    /\ lastOp = "init"
    /\ lastResult = ""
    /\ lastData = <<>>
    /\ lastInputs = <<>>
    /\ lastOutput = NoOutput
    /\ peer = NewEncoder
    /\ actor = 1

\* every enumerated adapt input with its statistics on each device
AdaptInputs ==
    {[data |-> d, stats |-> [dev \in Devices |-> statistics(d, dev)]] : d \in FitInputs}

\* encoder.adapt(data)
Adapt ==
    \E in \in AdaptInputs :
        \E r \in {adapt(self, in.stats[device])} :
            /\ self' = r.self
            /\ lastOp' = "adapt"
            /\ lastResult' = r.raised
            /\ lastData' = IF r.raised = "" THEN in.data ELSE <<>>
            /\ history' = IF r.raised # "" THEN history
                          ELSE IF self.positive_frequency_lookup.tag = "tensor"
                          THEN "refit" ELSE "fit"
            /\ lastInputs' = <<>>
            /\ lastOutput' = NoOutput
            /\ UNCHANGED <<device, peer, actor>>

\* encoder.reset_state()
ResetState ==
    /\ self' = reset_state(self)
    /\ lastOp' = "reset_state"
    /\ lastResult' = ""
    /\ history' = "reset"
    /\ lastData' = <<>>
    /\ lastInputs' = <<>>
    /\ lastOutput' = NoOutput
    /\ UNCHANGED <<device, peer, actor>>

\* encoder(inputs)
Call ==
    \E inputs \in Batches :
        \E r \in {call(self, inputs, device)} :
            /\ self' = r.self
            /\ lastOp' = "call"
            /\ lastResult' = r.raised
            /\ lastData' = <<>>
            /\ lastInputs' = inputs
            /\ lastOutput' = r.output
            /\ UNCHANGED <<device, history, peer, actor>>

Next == Adapt \/ ResetState \/ Call

Spec == Init /\ [][Next]_vars

(* --------------------------- two instances ---------------------------- *)

\* the two encoder instances: 1 is self, 2 is peer
Instances == {1, 2}

\* an assignment that sets the attributes of the class, so of every instance
assign_ClassLevel(objects, i, attributes) == [j \in DOMAIN objects |-> attributes]

\* self.positive_frequency_lookup = ..., self.negative_frequency_lookup = ...:
\* the assignments set attributes of the instance the method was called on
assign(objects, i, attributes) == [objects EXCEPT ![i] = attributes]

\* the adapt inputs of the two instances: those of at most one row and the
\* reference data
PairFitInputs == {in \in AdaptInputs : Len(in.data) <= 1 \/ in.data = ReferenceData}

\* the call inputs of the two instances: the batches of at most one index and
\* the reference batch
PairBatches == {b \in Batches : Len(b) <= 1 \/ b = ReferenceBatch}

\* the result of the latest method; the history of a single encoder is not
\* kept for two
PairHistory(raised) ==
    /\ lastResult' = raised
    /\ history' = "new"
    /\ UNCHANGED device

\* instance i .adapt(data)
AdaptAt(i) ==
    \E in \in PairFitInputs :
        \E r \in {adapt(<<self, peer>>[i], in.stats[device])} :
            \E objects \in {assign(<<self, peer>>, i, r.self)} :
                /\ self' = objects[1]
                /\ peer' = objects[2]
                /\ actor' = i
                /\ lastOp' = "adapt"
                /\ lastData' = IF r.raised = "" THEN in.data ELSE <<>>
                /\ lastInputs' = <<>>
                /\ lastOutput' = NoOutput
                /\ PairHistory(r.raised)

\* instance i .reset_state()
ResetStateAt(i) ==
    \E objects \in {assign(<<self, peer>>, i, reset_state(<<self, peer>>[i]))} :
        /\ self' = objects[1]
        /\ peer' = objects[2]
        /\ actor' = i
        /\ lastOp' = "reset_state"
        /\ lastData' = <<>>
        /\ lastInputs' = <<>>
        /\ lastOutput' = NoOutput
        /\ PairHistory("")

\* instance i (inputs)
CallAt(i) ==
    \E inputs \in PairBatches :
        \E r \in {call(<<self, peer>>[i], inputs, device)} :
            \E objects \in {assign(<<self, peer>>, i, r.self)} :
                /\ self' = objects[1]
                /\ peer' = objects[2]
                /\ actor' = i
                /\ lastOp' = "call"
                /\ lastData' = <<>>
                /\ lastInputs' = inputs
                /\ lastOutput' = r.output
                /\ PairHistory(r.raised)

NextPair == \E i \in Instances : AdaptAt(i) \/ ResetStateAt(i) \/ CallAt(i)

\* two encoders, their methods called in any interleaving
SpecPair == Init /\ [][NextPair]_vars

(* ------------------------- notions of the claims ----------------------- *)

positive_frequency_lookup == self.positive_frequency_lookup.val
negative_frequency_lookup == self.negative_frequency_lookup.val

\* both lookups hold tensors
IsFit ==
    /\ self.positive_frequency_lookup.tag = "tensor"
    /\ self.negative_frequency_lookup.tag = "tensor"

\* the latest method was an adapt that returned (lastData is its input)
AdaptReturned == lastOp = "adapt" /\ lastResult = ""

\* the latest method was a call that returned (lastOutput is its output)
CallReturned == lastOp = "call" /\ lastResult = ""

\* the number of rows of data with feature value v and the given label
Count(data, v, label) ==
    Cardinality({i \in DOMAIN data : data[i][1] = v /\ (data[i][2] # 0) = label})

\* the feature values occurring in data
Values(data) == {data[i][1] : i \in DOMAIN data}

\* index v addresses an element of both lookups
InRange(v) ==
    /\ v >= 0
    /\ v < Len(positive_frequency_lookup)
    /\ v < Len(negative_frequency_lookup)

(* ------------------------------- claims -------------------------------- *)

C2_CountConservation ==
    AdaptReturned =>
        \A v \in Values(lastData) :
            /\ InRange(v)
            /\ positive_frequency_lookup[v + 1] + negative_frequency_lookup[v + 1]
                   = Count(lastData, v, TRUE) + Count(lastData, v, FALSE)
            /\ positive_frequency_lookup[v + 1] + negative_frequency_lookup[v + 1] > 0

\* float32 f is the integer n
IsInteger(f, n) == f = Num(n, 0)

\* float32 f is p / t: NaN when p = t = 0, else p / t itself or, with a full
\* significand, within half a unit in the last place of it
IsQuotient(f, p, t) ==
    IF t = 0 THEN p = 0 /\ f = NaN
    ELSE /\ f.kind = "num"
         /\ \/ f.m * t = p * Pow2(f.k)
            \/ /\ f.m >= MinMantissa
               /\ f.m <= 2 * MinMantissa
               /\ 2 * (f.m * t - p * Pow2(f.k)) <= t
               /\ 2 * (p * Pow2(f.k) - f.m * t) <= t

\* C3: a call on a fitted encoder with a batch of in-range indices returns
\* one row per input element, in input order; the row of index v is
\* (positive_frequency_lookup[v], negative_frequency_lookup[v], their
\* quotient positive / (positive + negative)); on the reference data the
\* batch [0,1,2] gives (6,0,6/6), (4,3,4/7), (1,5,1/6).
C3_CallReturnsTriples ==
    (lastOp = "call" /\ IsFit /\ \A i \in DOMAIN lastInputs : InRange(lastInputs[i])) =>
        /\ lastResult = ""
        /\ lastOutput.present
        /\ DOMAIN lastOutput.rows = DOMAIN lastInputs
        /\ \A i \in DOMAIN lastInputs :
            LET v == lastInputs[i]
                p == positive_frequency_lookup[v + 1]
                n == negative_frequency_lookup[v + 1]
                row == lastOutput.rows[i]
            IN  /\ Len(row) = 3
                /\ IsInteger(row[1], p)
                /\ IsInteger(row[2], n)
                /\ IsQuotient(row[3], p, p + n)
        /\ ( /\ positive_frequency_lookup = <<6, 4, 1>>
             /\ negative_frequency_lookup = <<0, 3, 5>>
             /\ lastInputs = ReferenceBatch ) =>
            lastOutput.rows =
                << <<Num(6, 0), Num(0, 0), Num(1, 0)>>,
                   <<Num(4, 0), Num(3, 0), Num(9586981, 24)>>,
                   <<Num(1, 0), Num(5, 0), Num(11184811, 26)>> >>

C3_Witness ==
    /\ CallReturned
    /\ positive_frequency_lookup = <<6, 4, 1>>
    /\ negative_frequency_lookup = <<0, 3, 5>>
    /\ lastInputs = ReferenceBatch
    /\ Len(lastOutput.rows) = 3
    /\ lastOutput.rows[2] = <<Num(4, 0), Num(3, 0), Num(9586981, 24)>>

\* C4: a call on an encoder that is not fit, a newly constructed one
\* included, raises the "You need to call the adapt method" ValueError and
\* returns nothing.
C4_UnfitCallRaisesValueError ==
    (lastOp = "call" /\ ~IsFit) =>
        /\ lastResult = "ValueError"
        /\ ~lastOutput.present

\* C5: reset_state can be called in every state and returns; it leaves both
\* lookups None; every call from then until an adapt returns raises the
\* ValueError and returns nothing.
C5_ResetClearsState ==
    /\ ENABLED ResetState
    /\ lastOp = "reset_state" =>
        /\ lastResult = ""
        /\ history = "reset"
        /\ self.positive_frequency_lookup = None
        /\ self.negative_frequency_lookup = None
    /\ (history = "reset" /\ lastOp = "call") =>
        /\ lastResult = "ValueError"
        /\ ~lastOutput.present
        /\ ~IsFit

C5_Witness ==
    /\ history = "reset"
    /\ lastOp = "call"
    /\ lastResult = "ValueError"
    /\ lastInputs = ReferenceBatch

\* C6: after an adapt that returns, whatever was called before it, the
\* lookups are those a newly constructed encoder has after the same adapt.
C6_AdaptReplaces ==
    AdaptReturned =>
        self = adapt(NewEncoder, statistics(lastData, device)).self

C6_Witness ==
    /\ AdaptReturned
    /\ history = "refit"
    /\ lastData = ReferenceData
    /\ positive_frequency_lookup = <<6, 4, 1>>

\* the rows of data in the order perm
Permuted(data, perm) == [i \in DOMAIN data |-> data[perm[i]]]

\* every permutation of 1..n
RowOrders(n) == {f \in [1..n -> 1..n] : \A i, j \in 1..n : f[i] = f[j] => i = j}

\* the exchanges of two of 1..n
RowExchanges(n) ==
    {[k \in 1..n |-> IF k = i THEN j ELSE IF k = j THEN i ELSE k] : i, j \in 1..n}

\* the reorderings an input is compared with: all of them for an input of at
\* most MaxLen rows, the exchanges of two rows for a longer one
Reorderings(data) ==
    {Permuted(data, perm) :
        perm \in IF Len(data) <= MaxLen THEN RowOrders(Len(data))
                 ELSE RowExchanges(Len(data))}

\* C7: after an adapt that returns, adapt of any reordering of its input
\* returns too and gives the same two lookups.
C7_OrderIndependence ==
    AdaptReturned =>
        \A data \in Reorderings(lastData) :
            LET stats == statistics(data, device)
            IN  /\ stats.raised = ""
                /\ stats.positive_frequency = positive_frequency_lookup
                /\ stats.negative_frequency = negative_frequency_lookup

C7_Witness ==
    /\ AdaptReturned
    /\ lastData = << <<1, 1>>, <<0, 0>> >>
    /\ positive_frequency_lookup = <<0, 1>>
    /\ negative_frequency_lookup = <<1, 0>>

\* the largest feature value of data, -1 for no rows
MaxValue(data) ==
    IF data = <<>> THEN -1
    ELSE CHOOSE v \in Values(data) : \A w \in Values(data) : w <= v

C9_OutOfRangeCallRaises ==
    (lastOp = "call" /\ IsFit /\ \E i \in DOMAIN lastInputs : ~InRange(lastInputs[i])) =>
        /\ lastResult = "InvalidArgumentError"
        /\ ~lastOutput.present

\* C10: a call, returning or raising, leaves both lookups as they were; the
\* lookups change only in an adapt or a reset_state; a call repeated with the
\* same inputs gives the same result.
C10_CallIsPureRead ==
    [][ /\ lastOp' = "call" => (self' = self /\ history' = history)
        /\ self' # self => lastOp' \in {"adapt", "reset_state"}
        /\ (lastOp = "call" /\ lastOp' = "call" /\ lastInputs' = lastInputs) =>
               (lastResult' = lastResult /\ lastOutput' = lastOutput) ]_vars

C10_Witness ==
    /\ CallReturned
    /\ IsFit
    /\ history = "refit"
    /\ lastInputs = ReferenceBatch
    /\ positive_frequency_lookup = <<6, 4, 1>>

\* C11: in what a call returns, the positive_probability of every index v of
\* the lookups whose two frequencies do not sum to zero is a number between
\* 0 and 1; the positive frequency is between 0 and the sum.
C11_ProbabilityBounds ==
    CallReturned =>
        \A i \in DOMAIN lastInputs :
            LET v == lastInputs[i]
                p == positive_frequency_lookup[v + 1]
                n == negative_frequency_lookup[v + 1]
                probability == lastOutput.rows[i][3]
            IN  (InRange(v) /\ p + n # 0) =>
                    /\ 0 <= p
                    /\ 0 <= n
                    /\ p <= p + n
                    /\ probability.kind = "num"
                    /\ 0 <= probability.m
                    /\ probability.m <= Pow2(probability.k)

C11_Witness ==
    /\ CallReturned
    /\ positive_frequency_lookup = <<6, 4, 1>>
    /\ negative_frequency_lookup = <<0, 3, 5>>
    /\ lastInputs = <<1>>
    /\ lastOutput.rows[1][3] = Num(9586981, 24)

\* C13: in every reachable state, an adapt that raised included, the two
\* lookups are both absent (never assigned, or None) or both tensors of the
\* same length.
C13_NoPartialFit ==
    \/ /\ self.positive_frequency_lookup.tag # "tensor"
       /\ self.negative_frequency_lookup.tag # "tensor"
    \/ /\ self.positive_frequency_lookup.tag = "tensor"
       /\ self.negative_frequency_lookup.tag = "tensor"
       /\ Len(positive_frequency_lookup) = Len(negative_frequency_lookup)

C13_Witness ==
    /\ lastOp = "adapt"
    /\ lastResult = "InvalidArgumentError"
    /\ history = "fit"
    /\ IsFit
    /\ Len(positive_frequency_lookup) = 2
    /\ Len(negative_frequency_lookup) = 2

\* C12: under any interleaving of adapt, reset_state and call on two encoder
\* instances, a method called on one instance, returning or raising, leaves
\* the attributes of the other as they were, and the attributes it leaves on
\* its own instance, and what it returns or raises, are those the method
\* gives on that instance alone.
C12_InstancesIndependent ==
    [][ LET before == <<self, peer>>
            after == <<self', peer'>>
            i == actor'
            other == 3 - actor'
        IN  /\ after[other] = before[other]
            /\ lastOp' = "reset_state" =>
                   (lastResult' = "" /\ after[i] = reset_state(before[i]))
            /\ lastOp' = "call" =>
                   LET alone == call(before[i], lastInputs', device)
                   IN  /\ after[i] = before[i]
                       /\ lastResult' = alone.raised
                       /\ lastOutput' = alone.output
            /\ (lastOp' = "adapt" /\ lastResult' = "") =>
                   \E in \in PairFitInputs :
                       /\ in.data = lastData'
                       /\ after[i] = adapt(NewEncoder, in.stats[device]).self
            /\ (lastOp' = "adapt" /\ lastResult' # "") =>
                   after[i] = before[i] ]_vars

C12_Witness ==
    /\ actor = 2
    /\ lastOp = "call"
    /\ lastResult = "ValueError"
    /\ peer = [positive_frequency_lookup |-> None, negative_frequency_lookup |-> None]
    /\ self.positive_frequency_lookup = Tensor(<<6, 4, 1>>)
    /\ self.negative_frequency_lookup = Tensor(<<0, 3, 5>>)

====
